---- MODULE Spec2Model ----
(***************************************************************************)
(* A model of convert_png_to_svg.py: the hexagonal-grid coordinate math    *)
(* (axial_round, pixel_to_pointy_hex, hex_to_pixel) and the conversion     *)
(* pipeline convert_png_to_svg (sampler sweep, accumulator, renderer).     *)
(*                                                                         *)
(* Numbers.  The program computes with Python floats built from integers,  *)
(* the four arithmetic operations and sqrt(3).  Every such value lies in   *)
(* the field Q(sqrt 3); the model represents it exactly as a record        *)
(* [a, b, d] standing for (a + b*sqrt(3)) / d with d > 0 and gcd(a,b,d)=1. *)
(* round(), int(), abs() and the comparisons are computed exactly on that  *)
(* representation.  The IEEE-754 rounding error of the double arithmetic   *)
(* (about 1e-16 relative) is not represented.  The model therefore agrees  *)
(* with the program wherever no intermediate value lies within that error  *)
(* of a boundary of round() or of a comparison and magnitudes stay far     *)
(* below 2^53: on the dyadic arguments of the direct calls, and on every   *)
(* sample point of an image that does not lie exactly on the border of two *)
(* cells.  A sample point exactly on a border (possible only where         *)
(* 20 * y / height is an integer) is given to one of the two cells by the  *)
(* program according to the rounding error, by the model according to the  *)
(* exact comparison.                                                       *)
(***************************************************************************)
EXTENDS Integers, Sequences, FiniteSets, TLC

VARIABLES
    pc,                 \* position of the running call
    width, height,      \* image.size
    image,              \* the decoded picture (which pixel pattern it holds)
    size,               \* hexagon circumradius, height / (10 * sqrt(3))
    step,               \* int(size / 2), the step of both range() loops
    x, y,               \* the loop variables of the sampler sweep
    color_per_hexagon,  \* the accumulator: insertion-ordered <<cell, samples>>
    svg,                \* the polygon lines appended so far
    output,             \* what has been written to output_path
    outcome,            \* how the call ended
    reads,              \* every point handed to image.getpixel, in order
    arg,                \* arguments of a direct call of a coordinate function
    ret1, ret2,         \* results of the first and the second call
    axis                \* the cube axis axial_round recomputed

vars == <<pc, width, height, image, size, step, x, y, color_per_hexagon,
          svg, output, outcome, reads, arg, ret1, ret2, axis>>

convVars == <<width, height, image, size, step, x, y, color_per_hexagon,
              svg, output, outcome, reads>>

callVars == <<arg, ret1, ret2, axis>>

-----------------------------------------------------------------------------
(* Bounds of the model. *)

MaxWidth == 4
MaxHeight == 70
MaxCoord == 2
FracBits == 3
MaxHex == 3
MaxSizeNum == 2
MaxSizeDen == 2

-----------------------------------------------------------------------------
(* Exact arithmetic in Q(sqrt 3). *)

Abs(n) == IF n < 0 THEN -n ELSE n

RECURSIVE GCD(_, _)
GCD(m, n) == IF n = 0 THEN m ELSE GCD(n, m % n)

\* The canonical form of (a + b*sqrt(3)) / d, d # 0.
Norm(a, b, d) ==
    LET g == GCD(GCD(Abs(a), Abs(b)), Abs(d))
        s == IF d < 0 THEN -g ELSE g
    IN  [a |-> a \div s, b |-> b \div s, d |-> d \div s]

Num(n) == [a |-> n, b |-> 0, d |-> 1]

Frac(n, m) == Norm(n, 0, m)

\* sqrt(3)
Sqrt3 == [a |-> 0, b |-> 1, d |-> 1]

Neg(u) == [a |-> -u.a, b |-> -u.b, d |-> u.d]

Add(u, v) == Norm(u.a * v.d + v.a * u.d, u.b * v.d + v.b * u.d, u.d * v.d)

Sub(u, v) == Add(u, Neg(v))

Mul(u, v) == Norm(u.a * v.a + 3 * u.b * v.b, u.a * v.b + u.b * v.a, u.d * v.d)

\* u / v, v # 0: multiply by the conjugate of v.
Div(u, v) ==
    Norm((u.a * v.a - 3 * u.b * v.b) * v.d,
         (u.b * v.a - u.a * v.b) * v.d,
         u.d * (v.a * v.a - 3 * v.b * v.b))

\* -1, 0 or 1
Sign(u) ==
    CASE u.a = 0 /\ u.b = 0 -> 0
      [] u.a >= 0 /\ u.b >= 0 -> 1
      [] u.a <= 0 /\ u.b <= 0 -> -1
      [] u.a > 0 /\ u.b < 0 -> IF u.a * u.a > 3 * u.b * u.b THEN 1 ELSE -1
      [] OTHER -> IF 3 * u.b * u.b > u.a * u.a THEN 1 ELSE -1

Less(u, v) == Sign(Sub(u, v)) < 0

AbsNum(u) == IF Sign(u) < 0 THEN Neg(u) ELSE u

RECURSIVE IsqrtIn(_, _, _)
IsqrtIn(n, lo, hi) ==
    IF lo = hi THEN lo
    ELSE LET mid == (lo + hi + 1) \div 2
         IN  IF mid * mid <= n THEN IsqrtIn(n, mid, hi)
             ELSE IsqrtIn(n, lo, mid - 1)

\* floor(sqrt(n)) for 0 <= n
Isqrt(n) == IsqrtIn(n, 0, IF n < 46340 THEN n ELSE 46340)

\* floor(u): b*sqrt(3) is irrational unless b = 0.
Floor(u) ==
    LET root == Isqrt(3 * u.b * u.b)
        fb == CASE u.b = 0 -> 0
                [] u.b > 0 -> root
                [] OTHER -> -root - 1
    IN  (u.a + fb) \div u.d

IsInteger(u) == u.b = 0 /\ u.d = 1

\* int(): truncation towards zero
int(u) == IF Sign(u) >= 0 THEN Floor(u) ELSE -Floor(Neg(u))

\* Python's round(): to the nearest integer, an exact half to the even one.
round(u) ==
    LET h == Add(u, Frac(1, 2))
        f == Floor(h)
    IN  IF IsInteger(h) /\ f % 2 # 0 THEN f - 1 ELSE f

-----------------------------------------------------------------------------
(* Hex coordinate math. *)

\* Lines 17-20: the cube coordinates, their roundings and the deviations.
cube_round(q, r) ==
    LET cx == q
        cz == r
        cy == Sub(Neg(cx), cz)
        rx == round(cx)
        ry == round(cy)
        rz == round(cz)
    IN  [rx |-> rx, ry |-> ry, rz |-> rz,
         dx |-> AbsNum(Sub(Num(rx), cx)),
         dy |-> AbsNum(Sub(Num(ry), cy)),
         dz |-> AbsNum(Sub(Num(rz), cz))]

\* A variant that resolves ties in the order x, y, z (>= for >).
absorb_ge(dx, dy, dz) ==
    IF ~Less(dx, dy) /\ ~Less(dx, dz) THEN "x"
    ELSE IF ~Less(dy, dz) THEN "y"
    ELSE "z"

\* Lines 21-26: the axis that is recomputed from the other two.
absorb(dx, dy, dz) ==
    IF Less(dy, dx) /\ Less(dz, dx) THEN "x"
    ELSE IF Less(dz, dy) THEN "y"
    ELSE "z"

absorbed_axis(q, r) ==
    LET c == cube_round(q, r) IN absorb(c.dx, c.dy, c.dz)

\* A variant that leaves out the q/2 term of the row offset.
hex_to_pixel_square(q, r, sz) ==
    <<Mul(Mul(sz, Frac(3, 2)), q), Mul(Mul(sz, Sqrt3), r)>>

\* A variant that rounds q and r on their own, without the cube correction.
axial_round_naive(q, r) == <<round(q), round(r)>>

\* A variant whose last branch negates only one of the two other components.
axial_round_slip(q, r) ==
    LET c == cube_round(q, r)
        ax == absorb(c.dx, c.dy, c.dz)
    IN  CASE ax = "x" -> <<-c.ry - c.rz, c.rz>>
          [] ax = "y" -> <<c.rx, c.rz>>
          [] OTHER -> <<c.rx, -c.rx + c.ry>>

axial_round(q, r) ==
    LET c == cube_round(q, r)
        ax == absorb(c.dx, c.dy, c.dz)
    IN  CASE ax = "x" -> <<-c.ry - c.rz, c.rz>>
          [] ax = "y" -> <<c.rx, c.rz>>
          [] OTHER -> <<c.rx, -c.rx - c.ry>>

pixel_to_pointy_hex(px, py, sz) ==
    LET nx == Div(px, sz)
        ny == Div(py, sz)
        q == Mul(Frac(2, 3), nx)
        r == Sub(Mul(Div(Sqrt3, Num(3)), ny), Mul(Frac(1, 3), nx))
    IN  axial_round(q, r)

hex_to_pixel(q, r, sz) ==
    <<Mul(Mul(sz, Frac(3, 2)), q),
      Mul(Mul(sz, Sqrt3), Add(Div(q, Num(2)), r))>>

-----------------------------------------------------------------------------
(* Direct calls of axial_round: axial_round(q, r), then axial_round again  *)
(* on its own result.                                                      *)

RECURSIVE Pow2(_)
Pow2(n) == IF n = 0 THEN 1 ELSE 2 * Pow2(n - 1)

\* The fractional inputs: the multiples of 2^-FracBits up to MaxCoord, which
\* are floats on which the program's negation, subtraction, round() and
\* abs() are exact.
Fractions ==
    {Frac(i, Pow2(FracBits)) :
        i \in (-MaxCoord * Pow2(FracBits))..(MaxCoord * Pow2(FracBits))}

idleConv ==
    /\ width = 0 /\ height = 0 /\ image = "none" /\ size = Num(0) /\ step = 0
    /\ x = 0 /\ y = 0 /\ color_per_hexagon = <<>> /\ svg = <<>>
    /\ output = <<>> /\ outcome = "none" /\ reads = <<>>

InitRound ==
    /\ idleConv
    /\ pc = "round_call"
    /\ arg \in [q : Fractions, r : Fractions]
    /\ ret1 = <<>> /\ ret2 = <<>> /\ axis = "none"

RoundOnce ==
    /\ pc = "round_call"
    /\ ret1' = axial_round(arg.q, arg.r)
    /\ axis' = absorbed_axis(arg.q, arg.r)
    /\ pc' = "round_once"
    /\ UNCHANGED <<arg, ret2>>
    /\ UNCHANGED convVars

RoundTwice ==
    /\ pc = "round_once"
    /\ ret2' = axial_round(Num(ret1[1]), Num(ret1[2]))
    /\ pc' = "round_twice"
    /\ UNCHANGED <<arg, ret1, axis>>
    /\ UNCHANGED convVars

NextRound == RoundOnce \/ RoundTwice

SpecRound == InitRound /\ [][NextRound]_vars

-----------------------------------------------------------------------------
(* Direct calls of hex_to_pixel(q, r, size), then of pixel_to_pointy_hex   *)
(* on the centre it returned, with the same size.                          *)

\* The sizes: (a + b*sqrt(3)) / d > 0, among them height / (10 * sqrt(3))
\* of small heights.
Sizes ==
    {Norm(a, b, d) : a \in 0..MaxSizeNum, b \in 0..MaxSizeNum, d \in 1..MaxSizeDen}
        \ {Num(0)}

InitTrip ==
    /\ idleConv
    /\ pc = "trip_call"
    /\ arg \in [q : (-MaxHex)..MaxHex, r : (-MaxHex)..MaxHex, size : Sizes]
    /\ ret1 = <<>> /\ ret2 = <<>> /\ axis = "none"

ToPixel ==
    /\ pc = "trip_call"
    /\ ret1' = hex_to_pixel(Num(arg.q), Num(arg.r), arg.size)
    /\ pc' = "trip_centre"
    /\ UNCHANGED <<arg, ret2, axis>>
    /\ UNCHANGED convVars

ToHex ==
    /\ pc = "trip_centre"
    /\ ret2' = pixel_to_pointy_hex(ret1[1], ret1[2], arg.size)
    /\ pc' = "trip_back"
    /\ UNCHANGED <<arg, ret1, axis>>
    /\ UNCHANGED convVars

NextTrip == ToPixel \/ ToHex

SpecTrip == InitTrip /\ [][NextTrip]_vars

-----------------------------------------------------------------------------
(* Properties of axial_round. *)

\* Squared distance between the centres of two axial positions, in units of
\* 3 * size^2: dq^2 + dq*dr + dr^2.
HexDist(q, r, cell) ==
    LET dq == Sub(q, Num(cell[1]))
        dr == Sub(r, Num(cell[2]))
    IN  Add(Add(Mul(dq, dq), Mul(dq, dr)), Mul(dr, dr))

\* The integer coordinates around u: the nearest cell of a position is
\* never further than one unit away in either coordinate.
Near(u) == (Floor(u) - 1)..(Floor(u) + 2)

C5_IdentityOnIntegers ==
    /\ (pc \in {"round_once", "round_twice"} /\ IsInteger(arg.q) /\ IsInteger(arg.r))
          => ret1 = <<arg.q.a, arg.r.a>>
    /\ pc = "round_twice" => ret2 = ret1

\* Both parts of the claim happen: an integral non-zero input has been
\* rounded twice.
C5_Witness ==
    /\ pc = "round_twice"
    /\ IsInteger(arg.q) /\ IsInteger(arg.r)
    /\ arg.q.a = 1 /\ arg.r.a = -2
    /\ ret2 = <<1, -2>>

\* The axes whose deviation is the largest of dx, dy, dz.
Largest(q, r) ==
    LET c == cube_round(q, r)
        dev == [a \in {"x", "y", "z"} |->
                   CASE a = "x" -> c.dx [] a = "y" -> c.dy [] OTHER -> c.dz]
    IN  {a \in {"x", "y", "z"} : \A o \in {"x", "y", "z"} : ~Less(dev[a], dev[o])}

\* C8 as stated: on a tie for the largest deviation the recomputed axis
\* follows the priority x before y before z.
C8_TiePriorityXYZ ==
    (pc \in {"round_once", "round_twice"} /\ Cardinality(Largest(arg.q, arg.r)) >= 2) =>
        axis = (IF "x" \in Largest(arg.q, arg.r) THEN "x"
                ELSE IF "y" \in Largest(arg.q, arg.r) THEN "y" ELSE "z")

\* C8 amended: on a tie for the largest deviation the recomputed axis
\* follows the priority z before y before x: z if it is among the tied
\* largest, otherwise y; x is recomputed only when dx is strictly the
\* largest, and an axis that is strictly the largest is always the one
\* recomputed.
C8_TiePriorityZYX ==
    pc \in {"round_once", "round_twice"} =>
        LET L == Largest(arg.q, arg.r)
        IN  axis = (IF "z" \in L THEN "z" ELSE IF "y" \in L THEN "y" ELSE "x")

\* A fractional input where dx ties with dy for the largest deviation.
C8_Witness ==
    /\ pc = "round_once"
    /\ ~IsInteger(arg.q)
    /\ Largest(arg.q, arg.r) = {"x", "y"}
    /\ axis = "y"

-----------------------------------------------------------------------------
(* convert_png_to_svg. *)

\* The pictures the decoder may hand over: one of a single colour and one
\* whose neighbouring pixels differ.
Images == {"red", "mixed"}

\* image.getpixel((px, py)) of an RGB image.
getpixel(img, px, py) ==
    IF img = "red" THEN <<255, 0, 0>>
    ELSE <<10 + ((px + py) % 2), (37 * px + 11 * py) % 256, 255 - ((px * py) % 3)>>

\* A variant of the loop test that also admits the stop value.
in_range_inclusive(v, stop) == v <= stop

\* Whether v is produced by range(0, stop, step), v being a multiple of step.
in_range(v, stop) == v < stop

\* A variant that nests the loops the other way round (y outside, x inside).
advance_y_outer(cx, cy, w, h, st) ==
    IF in_range(cx + st, w) THEN <<cx + st, cy, TRUE>>
    ELSE IF in_range(cy + st, h) THEN <<0, cy + st, TRUE>>
    ELSE <<cx, cy, FALSE>>

\* The sub-grid point after (cx, cy) in the nested loops of lines 118-119:
\* the inner loop runs over y, the outer one over x.
advance(cx, cy, w, h, st) ==
    IF in_range(cy + st, h) THEN <<cx, cy + st, TRUE>>
    ELSE IF in_range(cx + st, w) THEN <<cx + st, 0, TRUE>>
    ELSE <<cx, cy, FALSE>>

\* A variant that keeps a colour only once per cell.
accumulate_dedup(acc, h, pixel) ==
    IF \E i \in 1..Len(acc) : acc[i].h = h
    THEN LET i == CHOOSE i \in 1..Len(acc) : acc[i].h = h
         IN  IF \E k \in 1..Len(acc[i].pixels) : acc[i].pixels[k] = pixel
             THEN acc
             ELSE [acc EXCEPT ![i].pixels = Append(@, pixel)]
    ELSE Append(acc, [h |-> h, pixels |-> <<pixel>>])

\* color_per_hexagon[h].append(pixel) on a defaultdict(list): a dict keeps
\* its keys in the order of their first insertion.
accumulate(acc, h, pixel) ==
    IF \E i \in 1..Len(acc) : acc[i].h = h
    THEN LET i == CHOOSE i \in 1..Len(acc) : acc[i].h = h
         IN  [acc EXCEPT ![i].pixels = Append(@, pixel)]
    ELSE Append(acc, [h |-> h, pixels |-> <<pixel>>])

RECURSIVE channel_sum(_, _)
channel_sum(pixels, c) ==
    IF pixels = <<>> THEN 0 ELSE Head(pixels)[c] + channel_sum(Tail(pixels), c)

\* A variant that rounds the mean to the nearest integer.
channel_avg_nearest(pixels, c) ==
    (2 * channel_sum(pixels, c) + Len(pixels)) \div (2 * Len(pixels))

\* sum(p[c] for p in pixels) // n
channel_avg(pixels, c) == channel_sum(pixels, c) \div Len(pixels)

HexDigit ==
    <<"0", "1", "2", "3", "4", "5", "6", "7", "8", "9", "a", "b", "c", "d", "e", "f">>

RECURSIVE hex(_)
hex(n) == IF n < 16 THEN HexDigit[n + 1] ELSE hex(n \div 16) \o HexDigit[(n % 16) + 1]

\* f"{n:02x}": lowercase hexadecimal, padded with zeros to two digits
format_02x(n) == IF n < 16 THEN "0" \o hex(n) ELSE hex(n)

\* A variant that writes the channels in the order blue, green, red.
color_hex_bgr(r, g, b) == "#" \o format_02x(b) \o format_02x(g) \o format_02x(r)

\* f"#{r_avg:02x}{g_avg:02x}{b_avg:02x}"
color_hex(r, g, b) == "#" \o format_02x(r) \o format_02x(g) \o format_02x(b)

Init ==
    /\ pc = "open"
    /\ width \in 1..MaxWidth
    /\ height \in 1..MaxHeight
    /\ image \in Images
    /\ size = Num(0) /\ step = 0 /\ x = 0 /\ y = 0
    /\ color_per_hexagon = <<>> /\ svg = <<>> /\ output = <<>>
    /\ outcome = "none" /\ reads = <<>>
    /\ arg = <<>> /\ ret1 = <<>> /\ ret2 = <<>> /\ axis = "none"

\* Lines 113-118: the image is open, size and the step are computed and the
\* outer loop is entered; range() raises ValueError for a step of zero.
Open ==
    /\ pc = "open"
    /\ LET sz == Div(Num(height), Mul(Num(10), Sqrt3))
           st == int(Div(sz, Num(2)))
       IN  /\ size' = sz
           /\ step' = st
           /\ IF st = 0
              THEN /\ pc' = "raised"
                   /\ outcome' = "ValueError"
              ELSE /\ pc' = "sample"
                   /\ outcome' = outcome
    /\ x' = 0 /\ y' = 0
    /\ UNCHANGED <<width, height, image, color_per_hexagon, svg, output, reads>>
    /\ UNCHANGED callVars

\* Lines 120-122 for the sub-grid point (x, y), then the loop headers.
Sample ==
    /\ pc = "sample"
    /\ LET pixel == getpixel(image, x, y)
           h == pixel_to_pointy_hex(Num(x), Num(y), size)
           nxt == advance(x, y, width, height, step)
       IN  /\ reads' = Append(reads, <<x, y>>)
           /\ color_per_hexagon' = accumulate(color_per_hexagon, h, pixel)
           /\ x' = nxt[1]
           /\ y' = nxt[2]
           /\ pc' = IF nxt[3] THEN "sample" ELSE "render"
    /\ UNCHANGED <<width, height, image, size, step, svg, output, outcome>>
    /\ UNCHANGED callVars

\* Lines 126-133 for the next entry of color_per_hexagon.items().
Emit ==
    /\ pc = "render"
    /\ Len(svg) < Len(color_per_hexagon)
    /\ LET e == color_per_hexagon[Len(svg) + 1]
           r_avg == channel_avg(e.pixels, 1)
           g_avg == channel_avg(e.pixels, 2)
           b_avg == channel_avg(e.pixels, 3)
       IN  svg' = Append(svg, [h |-> e.h,
                               avg |-> <<r_avg, g_avg, b_avg>>,
                               fill |-> color_hex(r_avg, g_avg, b_avg)])
    /\ UNCHANGED <<pc, width, height, image, size, step, x, y,
                   color_per_hexagon, output, outcome, reads>>
    /\ UNCHANGED callVars

\* Lines 135-138: the document is written.
Write ==
    /\ pc = "render"
    /\ Len(svg) = Len(color_per_hexagon)
    /\ output' = <<[width |-> width, height |-> height, polygons |-> svg]>>
    /\ outcome' = "ok"
    /\ pc' = "done"
    /\ UNCHANGED <<width, height, image, size, step, x, y,
                   color_per_hexagon, svg, reads>>
    /\ UNCHANGED callVars

Next == Open \/ Sample \/ Emit \/ Write

Spec == Init /\ [][Next]_vars

-----------------------------------------------------------------------------
(* Properties of convert_png_to_svg. *)

Polygons == IF output = <<>> THEN <<>> ELSE output[1].polygons

\* The sub-grid of an image for the step in use: the multiples of the step
\* inside the image.
SubGrid ==
    {p \in (0..(width - 1)) \X (0..(height - 1)) : p[1] % step = 0 /\ p[2] % step = 0}

CeilDiv(n, m) == (n + m - 1) \div m

\* The position of a sub-grid point in a sweep with x outside and y inside.
Rank(p) == (p[1] \div step) * CeilDiv(height, step) + (p[2] \div step)

\* Every sub-grid point with the cell that pixel_to_pointy_hex gives it.
Touched ==
    {<<p, pixel_to_pointy_hex(Num(p[1]), Num(p[2]), size)>> : p \in SubGrid}

RECURSIVE TotalSamples(_)
TotalSamples(acc) ==
    IF acc = <<>> THEN 0 ELSE Len(Head(acc).pixels) + TotalSamples(Tail(acc))

\* C1 as stated: on an image that is (255,0,0) everywhere, of any width >= 4
\* and height >= 4, the call completes and writes at least one polygon, and
\* every polygon has fill "#ff0000".
C1_UniformRedAnySize ==
    (image = "red" /\ width >= 4 /\ height >= 4) =>
        /\ pc # "raised"
        /\ pc = "sample" => (step >= 1 /\ x < width /\ y < height)
        /\ pc = "render" => Len(svg) <= Len(color_per_hexagon)
        /\ pc = "done" =>
              /\ outcome = "ok"
              /\ Len(Polygons) >= 1
              /\ \A i \in 1..Len(Polygons) : Polygons[i].fill = "#ff0000"

\* C1 amended: the same for any width >= 4 and height >= 35, the least
\* height whose step int(height / (10 * sqrt(3)) / 2) is not zero.
C1_UniformRedFromHeight35 ==
    (image = "red" /\ width >= 4 /\ height >= 35) =>
        /\ pc # "raised"
        /\ pc = "sample" => (step >= 1 /\ x < width /\ y < height)
        /\ pc = "render" => Len(svg) <= Len(color_per_hexagon)
        /\ pc = "done" =>
              /\ outcome = "ok"
              /\ Len(Polygons) >= 1
              /\ \A i \in 1..Len(Polygons) : Polygons[i].fill = "#ff0000"

\* A red image of the least admissible height has been converted.
C1_Witness ==
    /\ pc = "done"
    /\ image = "red" /\ width = 4 /\ height = 35
    /\ Len(Polygons) >= 2
    /\ Polygons[1].fill = "#ff0000"

\* C2: whenever the step int(size / 2) is zero the call ends in an
\* InvalidParameter error before any pixel is sampled, with no other kind
\* of error, and no output document is written.
C2_ZeroStepIsInvalidParameter ==
    (pc # "open" /\ step = 0) =>
        /\ pc = "raised"
        /\ outcome = "InvalidParameter"
        /\ reads = <<>>
        /\ output = <<>>

\* The two hexadecimal digits of a value in 0..255.
TwoDigits(a) == HexDigit[(a \div 16) + 1] \o HexDigit[(a % 16) + 1]

\* C6: each channel of an emitted fill colour is floor(sum / n) of the
\* cell's samples: an integer in 0..255, truncated and not rounded, between
\* the least and the greatest sample of that channel.
C6_TruncatedMean ==
    \A i \in 1..Len(svg) :
        LET pixels == color_per_hexagon[i].pixels
            n == Len(pixels)
        IN  /\ n >= 1
            /\ svg[i].fill = "#" \o TwoDigits(svg[i].avg[1]) \o TwoDigits(svg[i].avg[2])
                                 \o TwoDigits(svg[i].avg[3])
            /\ \A c \in 1..3 :
                  LET a == svg[i].avg[c]
                      total == channel_sum(pixels, c)
                  IN  /\ a \in 0..255
                      /\ a * n <= total /\ total < (a + 1) * n
                      /\ \E k \in 1..n : pixels[k][c] <= a
                      /\ \E k \in 1..n : pixels[k][c] >= a

\* A cell whose red mean lies in the upper half between two integers, so
\* that rounding to nearest would give another value, has been emitted.
C6_Witness ==
    /\ pc = "render"
    /\ \E i \in 1..Len(svg) :
          LET pixels == color_per_hexagon[i].pixels
              n == Len(pixels)
          IN  /\ 2 * (channel_sum(pixels, 1) % n) >= n
              /\ svg[i].avg[1] = 10

\* C7: the document holds exactly one polygon per populated cell, in the
\* order in which the sweep (x outside, y inside) first touched the cells.
C7_FirstTouchOrder ==
    pc = "done" =>
        LET touched == Touched
            ranks(c) == {Rank(t[1]) : t \in {u \in touched : u[2] = c}}
            first == [i \in 1..Len(Polygons) |->
                        LET rs == ranks(Polygons[i].h)
                        IN  IF rs = {} THEN -1
                            ELSE CHOOSE r \in rs : \A o \in rs : r <= o]
        IN  /\ {Polygons[i].h : i \in 1..Len(Polygons)} = {t[2] : t \in touched}
            /\ \A i \in 1..Len(Polygons) : first[i] >= 0
            /\ \A i \in 1..(Len(Polygons) - 1) : first[i] < first[i + 1]

\* A document of several columns of cells has been written.
C7_Witness ==
    /\ pc = "done"
    /\ image = "mixed" /\ width = 4 /\ height = 37
    /\ Len(Polygons) = 22
    /\ Polygons[1].h = <<0, 0>> /\ Polygons[12].h = <<1, 0>> /\ Polygons[22].h = <<1, -1>>

\* C9: when sampling is complete the keys of the accumulator are exactly
\* the cells some sub-grid point maps to, each once; a cell's list is as
\* long as the number of sub-grid points that map to it; and the lengths
\* add up to ceil(width / step) * ceil(height / step).
C9_AccumulatorCounts ==
    (pc = "render" /\ svg = <<>>) =>
        LET acc == color_per_hexagon
            touched == Touched
        IN  /\ {acc[i].h : i \in 1..Len(acc)} = {t[2] : t \in touched}
            /\ \A i, j \in 1..Len(acc) : acc[i].h = acc[j].h => i = j
            /\ \A i \in 1..Len(acc) :
                  /\ Len(acc[i].pixels) >= 1
                  /\ Len(acc[i].pixels) =
                        Cardinality({t \in touched : t[2] = acc[i].h})
            /\ TotalSamples(acc) = CeilDiv(width, step) * CeilDiv(height, step)

\* Sampling of an image whose width is no multiple of the step is complete.
C9_Witness ==
    /\ pc = "render" /\ svg = <<>>
    /\ step = 2 /\ width = 3
    /\ Len(color_per_hexagon) >= 2
    /\ TotalSamples(color_per_hexagon) = 2 * CeilDiv(height, 2)

\* C10: every point handed to getpixel lies inside the image, both of its
\* coordinates are multiples of the one step int(size / 2), which depends
\* on the height only, and the sweep starts at (0, 0).
C10_ReadsInsideImage ==
    reads # <<>> =>
        /\ step >= 1
        /\ (60 * step) * (60 * step) <= 3 * height * height
        /\ 3 * height * height < (60 * (step + 1)) * (60 * (step + 1))
        /\ reads[1] = <<0, 0>>
        /\ \A k \in 1..Len(reads) :
              /\ 0 <= reads[k][1] /\ reads[k][1] < width
              /\ 0 <= reads[k][2] /\ reads[k][2] < height
              /\ reads[k][1] % step = 0
              /\ reads[k][2] % step = 0

\* The last point of a sweep with step 2 over a wide image has been read.
C10_Witness ==
    /\ pc = "render"
    /\ step = 2 /\ width = 4 /\ height = 70
    /\ reads[Len(reads)] = <<2, 68>>

====
